---------------------------- MODULE Spec2Model ----------------------------
(***************************************************************************)
(* Model of package db of kudos (src/lib/db/db.go): a file-based store     *)
(* with a lock file, a live document `data` and a staging file `data.tmp`. *)
(* Processes call Open, the Committer it returns, Read and Init; every     *)
(* system call of a handler is one step, so that the calls of different    *)
(* processes interleave as they do on a shared file system.                *)
(***************************************************************************)
EXTENDS Integers, Sequences, FiniteSets, TLC

(***************************************************************************)
(* Bounds of the model.                                                    *)
(***************************************************************************)
NumProcs == 2
MaxKey == 1
MaxVal == 1
MaxFaults == 1
MaxInits == 1
MaxCodes == 2
MaxGrades == 1
MaxUids == 3
MaxHandins == 2
MaxListed == 2

(***************************************************************************)
(* Program constants.                                                      *)
(***************************************************************************)
LockAttempts == 3

Procs == 1..NumProcs
Keys == 1..MaxKey
Vals == 1..MaxVal
NumInodes == NumProcs + 2
Inodes == 1..NumInodes

DBFileName == "data"
DBTempFileName == "data.tmp"
FileNames == {DBFileName, DBTempFileName}

(***************************************************************************)
(* Go values.  The payload is the course database, a struct holding a map  *)
(* (ctx.DB.Students); a Go map is nil or a finite function.  An            *)
(* interface{} argument is nil or holds a payload.                         *)
(***************************************************************************)
EmptyFcn == [k \in {} |-> 0]
NilMap == [isnil |-> TRUE, m |-> EmptyFcn]
MakeMap(f) == [isnil |-> FALSE, m |-> f]
MapVals == {NilMap} \cup {MakeMap(f) : f \in UNION {[S -> Vals] : S \in SUBSET Keys}}
Payload(g) == [isNil |-> FALSE, Students |-> g]
Payloads == {Payload(g) : g \in MapVals}
NilIface == [isNil |-> TRUE, Students |-> NilMap]
ZeroPayload == Payload(NilMap)

(***************************************************************************)
(* JSON text is a sequence of string tokens: "{", "}", member names,       *)
(* scalars, and the newline json.Encoder appends.                          *)
(***************************************************************************)
RECURSIVE MarshalMembers(_, _)
MarshalMembers(f, k) ==
    IF k > MaxKey THEN <<>>
    ELSE (IF k \in DOMAIN f THEN <<ToString(k), ToString(f[k])>> ELSE <<>>)
         \o MarshalMembers(f, k + 1)

\* a slip: a nil map is written as an empty object
MarshalMapNilAsEmpty(g) == <<"{">> \o MarshalMembers(g.m, 1) \o <<"}">>

\* json.Marshal of a map: null for a nil map, else an object, keys sorted
MarshalMap(g) ==
    IF g.isnil THEN <<"null">> ELSE <<"{">> \o MarshalMembers(g.m, 1) \o <<"}">>

\* marshaler.MarshalJSON: json.Marshal(m.v)
MarshalJSON(v) ==
    IF v.isNil THEN <<"null">>
    ELSE <<"{", "Students">> \o MarshalMap(v.Students) \o <<"}">>

BuildVersion == "v"
BuildCommit == "c"
Now == "t"

\* u.Uid of user.Current(): the processes run as a user the system knows; ""
\* stands for a user it does not know
UserCurrent(p) == "u"

\* getDBObj: the envelope around v; UID stays "" when user.Current() failed
getDBObj(v, uid) ==
    [Version |-> BuildVersion, Commit |-> BuildCommit, UID |-> uid, Time |-> Now, DB |-> v]

\* json.Encoder.Encode of a db struct: fields in order, UID omitted when empty
Encode(d) ==
    <<"{", "Version", d.Version, "Commit", d.Commit>>
    \o (IF d.UID # "" THEN <<"UID", d.UID>> ELSE <<>>)
    \o <<"Time", d.Time, "DB">> \o MarshalJSON(d.DB) \o <<"}", "\n">>

(***************************************************************************)
(* Decoding.  The decoder first scans one complete value (a syntax error   *)
(* or a short file leaves the target alone), then stores it member by      *)
(* member.                                                                 *)
(***************************************************************************)
RECURSIVE MatchClose(_, _, _)
\* index of the "}" closing the object whose members start at i; 0 if none
MatchClose(s, i, d) ==
    IF i > Len(s) THEN 0
    ELSE IF s[i] = "{" THEN MatchClose(s, i + 1, d + 1)
    ELSE IF s[i] = "}" THEN (IF d = 1 THEN i ELSE MatchClose(s, i + 1, d - 1))
    ELSE MatchClose(s, i + 1, d)

\* index of the last token of the value starting at i; 0 if there is none
ValueEnd(s, i) ==
    IF i > Len(s) THEN 0
    ELSE IF s[i] = "{" THEN MatchClose(s, i + 1, 1)
    ELSE IF s[i] \in {"}", "\n"} THEN 0
    ELSE i

RECURSIVE Members(_, _, _)
\* the members of an object, tokens i..e-1, as a sequence of name/value pairs
Members(s, i, e) ==
    IF i >= e THEN <<>>
    ELSE LET ve == ValueEnd(s, i + 1)
         IN  IF s[i] \in {"{", "}"} \/ ve = 0 \/ ve >= e
             THEN <<[k |-> "#syntax", v |-> <<>>]>>
             ELSE <<[k |-> s[i], v |-> SubSeq(s, i + 1, ve)]>> \o Members(s, ve + 1, e)

RECURSIVE WellFormed(_)
\* the scanner's verdict on one value
WellFormed(v) ==
    /\ Len(v) > 0
    /\ IF v[1] = "{"
       THEN /\ ValueEnd(v, 1) = Len(v)
            /\ LET ms == Members(v, 2, Len(v))
               IN  \A j \in 1..Len(ms) : ms[j].k # "#syntax" /\ WellFormed(ms[j].v)
       ELSE Len(v) = 1 /\ v[1] \notin {"}", "\n"}

\* the first value of a stream, <<>> when the stream ends before the value does
FirstValue(s) ==
    IF ValueEnd(s, 1) = 0 THEN <<>> ELSE SubSeq(s, 1, ValueEnd(s, 1))

ParseKey(tok) == IF \E k \in Keys : ToString(k) = tok
                 THEN CHOOSE k \in Keys : ToString(k) = tok ELSE 0
ParseVal(tok) == IF \E n \in Vals : ToString(n) = tok
                 THEN CHOOSE n \in Vals : ToString(n) = tok ELSE 0

RECURSIVE StoreMap(_, _, _)
\* store the members ms[j..] into the map f: existing entries are kept
StoreMap(f, ms, j) ==
    IF j > Len(ms) THEN [err |-> FALSE, m |-> f]
    ELSE LET k == ParseKey(ms[j].k)
             n == IF Len(ms[j].v) = 1 THEN ParseVal(ms[j].v[1]) ELSE 0
         IN  IF k = 0 \/ n = 0
             THEN LET r == StoreMap(f, ms, j + 1) IN [err |-> TRUE, m |-> r.m]
             ELSE StoreMap([x \in (DOMAIN f) \cup {k} |-> IF x = k THEN n ELSE f[x]],
                           ms, j + 1)

\* json.Unmarshal of value v into a map field holding g
UnmarshalMap(g, v) ==
    IF v = <<"null">> THEN [err |-> FALSE, g |-> NilMap]
    ELSE IF v[1] # "{" THEN [err |-> TRUE, g |-> g]
    ELSE LET r == StoreMap(g.m, Members(v, 2, Len(v)), 1)
         IN  [err |-> r.err, g |-> MakeMap(r.m)]

RECURSIVE StorePayload(_, _, _)
StorePayload(t, ms, j) ==
    IF j > Len(ms) THEN [err |-> FALSE, t |-> t]
    ELSE IF ms[j].k = "Students"
         THEN LET r == UnmarshalMap(t.Students, ms[j].v)
                  rest == StorePayload(Payload(r.g), ms, j + 1)
              IN  [err |-> r.err \/ rest.err, t |-> rest.t]
         ELSE StorePayload(t, ms, j + 1)

\* marshaler.UnmarshalJSON: json.Unmarshal(b, m.v), m.v pointing at target t
UnmarshalJSON(t, b) ==
    IF b = <<"null">> THEN [err |-> FALSE, t |-> t]
    ELSE IF b[1] # "{" THEN [err |-> TRUE, t |-> t]
    ELSE StorePayload(t, Members(b, 2, Len(b)), 1)

IsTime(v) == v = <<Now>>
IsString(v) == Len(v) = 1 /\ v[1] \notin {"{", "}", "null"}

RECURSIVE StoreDB(_, _, _)
\* store the envelope's members: an Unmarshaler's error ends the decoding,
\* a type error of a plain field is kept and decoding goes on
StoreDB(t, ms, j) ==
    IF j > Len(ms) THEN [err |-> FALSE, t |-> t]
    ELSE IF ms[j].k = "DB"
         THEN LET r == UnmarshalJSON(t, ms[j].v)
              IN  IF r.err THEN r ELSE StoreDB(r.t, ms, j + 1)
    ELSE IF ms[j].k = "Time"
         THEN IF ms[j].v = <<"null">> \/ IsTime(ms[j].v)
              THEN StoreDB(t, ms, j + 1) ELSE [err |-> TRUE, t |-> t]
    ELSE IF ms[j].k \in {"Version", "Commit", "UID"}
         THEN LET r == StoreDB(t, ms, j + 1)
              IN  IF ms[j].v = <<"null">> \/ IsString(ms[j].v) THEN r
                  ELSE [err |-> TRUE, t |-> r.t]
    ELSE StoreDB(t, ms, j + 1)

\* json.Decoder.Decode(&db{DB: marshaler{v}}) on a file holding s, v pointing
\* at a target that holds t
Decode(t, s) ==
    LET v == FirstValue(s)
    IN  IF Len(v) = 0 \/ ~WellFormed(v) THEN [err |-> TRUE, t |-> t]
        ELSE IF v = <<"null">> THEN [err |-> FALSE, t |-> t]
        ELSE IF v[1] # "{" THEN [err |-> TRUE, t |-> t]
        ELSE StoreDB(t, Members(v, 2, Len(v)), 1)

\* a file holds a whole document: the decoder can scan one complete value
IsComplete(s) == Len(FirstValue(s)) > 0 /\ WellFormed(FirstValue(s))


(***************************************************************************)
(* State.                                                                  *)
(*  names    the directory: file name -> inode, 0 when the name is absent  *)
(*  inodes   inode -> content; an inode no name and no descriptor refers   *)
(*           to is empty                                                   *)
(*  sentinel the lock file exists                                          *)
(*  held     Lock.held of the Lock object of each process's Open           *)
(*  pc       where each process is in the handler it is running            *)
(*  fd       the inode of the file the handler has open, 0 for none        *)
(*  attempts lock attempts made by the running TryLockN                    *)
(*  target   the value the caller's v points at                            *)
(*  arg      the argument of the running Committer or Init call            *)
(*  c        the Committer the process holds: "nil", "fresh" (done = 0)    *)
(*           or "done" (done = 1)                                          *)
(*  err      the error the last call returned (or has set so far)          *)
(*  readDoc  what the decoder of the process's Open read from `data`       *)
(*  unlocks  calls of lock.Unlock made for the process's current Lock      *)
(*  err2     the last of them returned an error                            *)
(*  faults   the I/O failures the environment has produced so far; a       *)
(*           failed Unlock is not counted, the lock it leaves held allows  *)
(*           no second one                                                 *)
(*  inits    the calls of Init made so far                                 *)
(*  second   a second thread of the process that invokes the Committer     *)
(*           while an invocation of it is executing: "none" before it     *)
(*           does, then "panicked" or "committing"                       *)
(*  aa       a run of the command add-assignment                           *)
(*  hi       a call of handin.InitFaclHandin and the directory it works on *)
(*  vh       a call of validateHandins: its arguments and its result       *)
(***************************************************************************)
VARIABLES names, inodes, sentinel, held, pc, fd, attempts, target, arg, c, err,
          readDoc, unlocks, err2, faults, inits, second, aa, hi, vh

vars == <<names, inodes, sentinel, held, pc, fd, attempts, target, arg, c, err,
          readDoc, unlocks, err2, faults, inits, second, aa, hi, vh>>

\* the state of the store
store == <<names, inodes, sentinel, held, pc, fd, attempts, target, arg, c, err,
           readDoc, unlocks, err2, faults, inits, second>>

\* the state of the commands and functions around the store
tools == <<aa, hi, vh>>

\* none of them is running
ToolsOff == aa = [pc |-> "off"] /\ hi = [pc |-> "off"] /\ vh = [pc |-> "off"]

\* the environment lets n more I/O operations fail
Fault(n) == faults + n <= MaxFaults /\ faults' = faults + n

B(x) == IF x THEN 1 ELSE 0

Errors == {"nil", "ErrNeedAbsPath", "ErrLockFailed", "acquire lock", "open",
           "unmarshal", "create", "marshal", "sync", "rename", "release lock"}

\* where a process can be: between calls, at a statement of Open, of the
\* Committer, of Read or of Init, or stopped by the Committer's panic
PcValues == {"idle", "trylock", "openfile", "decode", "create", "encode", "sync",
             "rename", "unlock", "panicked", "rDecode", "iEncode", "iSync"}

TypeOK ==
    /\ names \in [FileNames -> 0..NumInodes]
    /\ DOMAIN inodes = Inodes
    /\ sentinel \in BOOLEAN
    /\ held \in [Procs -> BOOLEAN]
    /\ pc \in [Procs -> PcValues]
    /\ fd \in [Procs -> 0..NumInodes]
    /\ attempts \in [Procs -> 0..LockAttempts]
    /\ target \in [Procs -> Payloads]
    /\ arg \in [Procs -> Payloads \cup {NilIface}]
    /\ c \in [Procs -> {"nil", "fresh", "done"}]
    /\ err \in [Procs -> Errors]
    /\ unlocks \in [Procs -> 0..2]
    /\ err2 \in [Procs -> BOOLEAN]
    /\ faults \in 0..MaxFaults
    /\ inits \in 0..MaxInits
    /\ second \in [Procs -> {"none", "panicked", "committing"}]

(***************************************************************************)
(* The file system.  A file is an inode; a name or an open descriptor      *)
(* refers to it, and it lives as long as one of them does.  Inodes are     *)
(* numbered canonically: `data` is inode 1, `data.tmp` inode 2, and the    *)
(* unlinked files that descriptors still hold follow in the order of the   *)
(* processes holding them.                                                 *)
(***************************************************************************)
Cur == [names |-> names, fd |-> fd, inodes |-> inodes]

Linked(fs) == {fs.names[n] : n \in FileNames} \ {0}
Unlinked(fs) == ({fs.fd[p] : p \in Procs} \ {0}) \ Linked(fs)
Holder(fs, i) == CHOOSE p \in Procs : fs.fd[p] = i /\ \A q \in Procs : fs.fd[q] = i => p <= q

NewId(fs, i) ==
    IF i = 0 THEN 0
    ELSE IF i = fs.names[DBFileName] THEN 1
    ELSE IF i = fs.names[DBTempFileName] THEN 2
    ELSE 3 + Cardinality({j \in Unlinked(fs) : Holder(fs, j) < Holder(fs, i)})

Canon(fs) ==
    LET used == Linked(fs) \cup Unlinked(fs)
    IN  [names |-> [n \in FileNames |-> NewId(fs, fs.names[n])],
         fd |-> [p \in Procs |-> NewId(fs, fs.fd[p])],
         inodes |-> [k \in Inodes |->
                       IF \E i \in used : NewId(fs, i) = k
                       THEN fs.inodes[CHOOSE i \in used : NewId(fs, i) = k]
                       ELSE <<>>]]

SetFS(fs) ==
    LET new == Canon(fs)
    IN  /\ names' = new.names
        /\ fd' = new.fd
        /\ inodes' = new.inodes

\* write(2) of b at offset 0 of a file holding s
WriteAt0(s, b) == b \o SubSeq(s, Len(b) + 1, Len(s))

\* what a failed write may have put into the file: a proper prefix, here half
\* of the document or all of it but the final newline
ShortWrites(b) == {SubSeq(b, 1, n) : n \in {Len(b) \div 2, Len(b) - 1}}

\* the content of the live document, <<>> when there is none
Live == IF names[DBFileName] = 0 THEN <<>> ELSE inodes[names[DBFileName]]

Temp == IF names[DBTempFileName] = 0 THEN <<>> ELSE inodes[names[DBTempFileName]]

\* os.Open(name) by p, the file existing
FsOpen(fs, p, name) == [fs EXCEPT !.fd[p] = fs.names[name]]

\* a slip: an existing file is opened for writing as it is, not truncated
FsCreateKeepsContent(fs, p, name) ==
    LET i == IF fs.names[name] # 0 THEN fs.names[name]
             ELSE CHOOSE k \in Inodes : k \notin Linked(fs) \cup Unlinked(fs)
    IN  [fs EXCEPT !.names[name] = i, !.fd[p] = i]

\* os.Create(name) by p: truncate the file, or make it
FsCreate(fs, p, name) ==
    LET i == IF fs.names[name] # 0 THEN fs.names[name]
             ELSE CHOOSE k \in Inodes : k \notin Linked(fs) \cup Unlinked(fs)
    IN  [fs EXCEPT !.names[name] = i, !.inodes[i] = <<>>, !.fd[p] = i]

\* f.Write(b) by p
FsWrite(fs, p, b) == [fs EXCEPT !.inodes[fs.fd[p]] = WriteAt0(@, b)]

\* f.Close() by p
FsClose(fs, p) == [fs EXCEPT !.fd[p] = 0]

\* a slip: the rename leaves the target as it was
FsRenameKeepsTarget(fs, from, to) == [fs EXCEPT !.names[from] = 0]

\* a slip: the rename leaves the old name in place
FsRenameLeavesSource(fs, from, to) == [fs EXCEPT !.names[to] = fs.names[from]]

\* os.Rename(from, to), the file `from` existing
FsRename(fs, from, to) ==
    IF from = to THEN fs
    ELSE [fs EXCEPT !.names[to] = fs.names[from], !.names[from] = 0]

(***************************************************************************)
(* The lock (package lockfile).                                            *)
(***************************************************************************)
\* one attempt of TryLockN succeeds when no Lock object holds the lock
LockFree == \A q \in Procs : ~held[q]

\* Lock.Unlock by p: the error it returns; a failed Unlock leaves the lock as it is
UnlockErr(p, fail) == fail \/ ~held[p]

Unlock(p, fail) ==
    /\ held' = [held EXCEPT ![p] = IF UnlockErr(p, fail) THEN held[p] ELSE FALSE]
    /\ unlocks' = [unlocks EXCEPT ![p] = IF @ < 2 THEN @ + 1 ELSE @]
    /\ err2' = [err2 EXCEPT ![p] = UnlockErr(p, fail)]

(***************************************************************************)
(* Open.                                                                   *)
(***************************************************************************)
\* a slip: Open goes on although TryLockN did not get the lock
OpenAfterTryLockNIgnoresOk(ok, ioerr) == IF ioerr THEN "acquire lock" ELSE "nil"

\* a slip: an I/O error of the lock attempt is reported as contention
OpenAfterTryLockNHidesIOError(ok, ioerr) ==
    IF ioerr \/ ~ok THEN "ErrLockFailed" ELSE "nil"

\* Open, lines 126-131: what Open does with TryLockN's result
OpenAfterTryLockN(ok, ioerr) ==
    IF ioerr THEN "acquire lock" ELSE IF ~ok THEN "ErrLockFailed" ELSE "nil"

\* a slip: the deferred release of Open runs on success too
OpenDeferUnlockAlways(e) == TRUE

\* a slip: the failure path of Open forgets the lock
OpenDeferUnlockNever(e) == FALSE

\* Open, lines 134-138: the deferred release runs when Open returns an error
OpenDeferUnlock(e) == e # "nil"

\* the directory paths a caller may pass
AbsPath == <<"/", "course">>
RelPath == <<"course">>
Paths == {AbsPath, RelPath}

\* a slip: the path is not looked at
IsAbsAlways(path) == TRUE

\* filepath.IsAbs(path)
IsAbs(path) == Len(path) > 0 /\ path[1] = "/"

\* Open(v, path), v pointing at a new, zero-valued target: the path check
OpenWith(p, path) ==
    /\ pc[p] = "idle"
    /\ c[p] # "fresh"
    /\ target' = [target EXCEPT ![p] = ZeroPayload]
    /\ IF ~IsAbs(path)
       THEN /\ err' = [err EXCEPT ![p] = "ErrNeedAbsPath"]
            /\ UNCHANGED <<pc, attempts>>
       ELSE /\ pc' = [pc EXCEPT ![p] = "trylock"]
            /\ attempts' = [attempts EXCEPT ![p] = 0]
            /\ err' = [err EXCEPT ![p] = "nil"]
    /\ c' = [c EXCEPT ![p] = "nil"]
    /\ arg' = [arg EXCEPT ![p] = NilIface]
    /\ unlocks' = [unlocks EXCEPT ![p] = 0]
    /\ err2' = [err2 EXCEPT ![p] = FALSE]
    /\ readDoc' = [readDoc EXCEPT ![p] = <<>>]
    /\ UNCHANGED <<names, inodes, sentinel, held, fd, faults>>
    /\ UNCHANGED <<inits, second, tools>>

\* a call of Open
OpenCall(p) == \E path \in Paths : OpenWith(p, path)

\* one attempt of lock.TryLockN(3, 30ms), and Open's reaction when it returns
TryLock(p) ==
    /\ pc[p] = "trylock"
    /\ \E ioerr \in BOOLEAN :
         LET got == ~ioerr /\ LockFree
             n == attempts[p] + 1
             returns == ioerr \/ got \/ n = LockAttempts
             e == OpenAfterTryLockN(got, ioerr)
         IN  /\ Fault(B(ioerr))
             /\ sentinel' = (sentinel \/ ~ioerr)
             /\ attempts' = [attempts EXCEPT ![p] = IF returns THEN 0 ELSE n]
             /\ held' = [held EXCEPT ![p] = got \/ @]
             /\ IF ~returns
                THEN UNCHANGED <<pc, err>>
                ELSE /\ err' = [err EXCEPT ![p] = e]
                     /\ pc' = [pc EXCEPT ![p] = IF e = "nil" THEN "openfile" ELSE "idle"]
    /\ UNCHANGED <<names, inodes, fd, target, arg, c, readDoc, unlocks>>
    /\ UNCHANGED <<err2, inits, second, tools>>

\* os.Open(dbpath); on failure the deferred Unlock runs and Open returns
OpenFile(p) ==
    /\ pc[p] = "openfile"
    /\ \E fail \in BOOLEAN, ufail \in BOOLEAN :
         LET e == IF fail \/ names[DBFileName] = 0 THEN "open" ELSE "nil"
         IN  /\ Fault(B(fail))
             /\ err' = [err EXCEPT ![p] = e]
             /\ IF OpenDeferUnlock(e) THEN Unlock(p, ufail)
                ELSE ufail = FALSE /\ UNCHANGED <<held, unlocks, err2>>
             /\ IF e # "nil"
                THEN /\ pc' = [pc EXCEPT ![p] = "idle"]
                     /\ UNCHANGED fd
                ELSE /\ fd' = FsOpen(Cur, p, DBFileName).fd
                     /\ pc' = [pc EXCEPT ![p] = "decode"]
    /\ UNCHANGED <<names, inodes, sentinel, attempts, target, arg, c, readDoc>>
    /\ UNCHANGED <<inits, second, tools>>

\* d.Decode(&db{DB: marshaler{v}}), f.Close(), and the return of Open
OpenDecode(p) ==
    /\ pc[p] = "decode"
    /\ \E fail \in BOOLEAN, ufail \in BOOLEAN :
         LET r == Decode(target[p], inodes[fd[p]])
             e == IF fail \/ r.err THEN "unmarshal" ELSE "nil"
         IN  /\ Fault(B(fail))
             /\ target' = [target EXCEPT ![p] = IF fail THEN @ ELSE r.t]
             /\ err' = [err EXCEPT ![p] = e]
             /\ c' = [c EXCEPT ![p] = IF e = "nil" THEN "fresh" ELSE "nil"]
             /\ readDoc' = [readDoc EXCEPT ![p] = IF e = "nil" THEN inodes[fd[p]] ELSE <<>>]
             /\ IF OpenDeferUnlock(e) THEN Unlock(p, ufail)
                ELSE ufail = FALSE /\ UNCHANGED <<held, unlocks, err2>>
    /\ SetFS(FsClose(Cur, p))
    /\ pc' = [pc EXCEPT ![p] = "idle"]
    /\ UNCHANGED <<sentinel, attempts, arg>>
    /\ UNCHANGED <<inits, second, tools>>

(***************************************************************************)
(* The Committer returned by Open.                                         *)
(***************************************************************************)
\* a slip: the one-shot flag is not consulted
CompareAndSwapAlways(done) == TRUE

\* Committer, line 157: atomic.CompareAndSwapUint32(&done, 0, 1)
CompareAndSwap(done) == done = "fresh"

\* a slip: the new document is written over the live one
tmppathIsDBPath == DBFileName

\* Committer, line 172: the path the new document is written to
tmppath == DBTempFileName

\* a slip: the result of Unlock is not looked at
CommitterErrSwallowsUnlock(e, uerr) == e

\* a slip: the deferred function overwrites the error of the write
CommitterErrDropsWriteError(e, uerr) == IF uerr THEN "release lock" ELSE "nil"

\* Committer, lines 161-169: the error returned after the deferred Unlock
CommitterErr(e, uerr) == IF uerr /\ e = "nil" THEN "release lock" ELSE e

\* a slip: the value is written whatever it is
CommitWritesAlways(v) == TRUE

\* Committer, line 171: v != nil
CommitWrites(v) == ~v.isNil

\* the call of the Committer: the one-shot check, then the choice of the branch
CommitCall(p) ==
    /\ pc[p] = "idle"
    /\ c[p] # "nil"
    /\ \E v \in Payloads \cup {NilIface} :
         IF ~CompareAndSwap(c[p])
         THEN /\ pc' = [pc EXCEPT ![p] = "panicked"]
              /\ UNCHANGED <<c, arg, err>>
         ELSE /\ c' = [c EXCEPT ![p] = "done"]
              /\ arg' = [arg EXCEPT ![p] = v]
              /\ err' = [err EXCEPT ![p] = "nil"]
              /\ pc' = [pc EXCEPT ![p] = IF CommitWrites(v) THEN "create" ELSE "unlock"]
    /\ UNCHANGED <<names, inodes, sentinel, held, fd, attempts, target, readDoc,
                   unlocks, faults>>
    /\ UNCHANGED <<err2, inits, second, tools>>

\* os.Create(tmppath)
CommitCreate(p) ==
    /\ pc[p] = "create"
    /\ \/ /\ SetFS(FsCreate(Cur, p, tmppath))
          /\ pc' = [pc EXCEPT ![p] = "encode"]
          /\ UNCHANGED <<err, faults>>
       \/ /\ Fault(1)
          /\ err' = [err EXCEPT ![p] = "create"]
          /\ pc' = [pc EXCEPT ![p] = "unlock"]
          /\ UNCHANGED <<names, inodes, fd>>
    /\ UNCHANGED <<sentinel, held, attempts, target, arg, c, readDoc, unlocks>>
    /\ UNCHANGED <<err2, inits, second, tools>>

\* e.Encode(getDBObj(v)): one write of the whole document
CommitEncode(p) ==
    /\ pc[p] = "encode"
    /\ LET b == Encode(getDBObj(arg[p], UserCurrent(p)))
       IN  \/ /\ SetFS(FsWrite(Cur, p, b))
              /\ pc' = [pc EXCEPT ![p] = "sync"]
              /\ UNCHANGED <<err, faults>>
           \/ \E short \in ShortWrites(b) :
                /\ Fault(1)
                /\ SetFS(FsClose(FsWrite(Cur, p, short), p))
                /\ err' = [err EXCEPT ![p] = "marshal"]
                /\ pc' = [pc EXCEPT ![p] = "unlock"]
    /\ UNCHANGED <<sentinel, held, attempts, target, arg, c, readDoc, unlocks>>
    /\ UNCHANGED <<err2, inits, second, tools>>

\* a slip: the result of f.Sync() is not looked at
CommitAfterSyncIgnoresError(failed) == "rename"

\* Committer, lines 183-187: the rename follows a sync that succeeded
CommitAfterSync(failed) == IF failed THEN "unlock" ELSE "rename"

\* f.Sync()
CommitSync(p) ==
    /\ pc[p] = "sync"
    /\ \E failed \in BOOLEAN :
         /\ Fault(B(failed))
         /\ pc' = [pc EXCEPT ![p] = CommitAfterSync(failed)]
         /\ IF failed
            THEN /\ SetFS(FsClose(Cur, p))
                 /\ err' = [err EXCEPT ![p] = "sync"]
            ELSE UNCHANGED <<names, inodes, fd, err>>
    /\ UNCHANGED <<sentinel, held, attempts, target, arg, c, readDoc, unlocks>>
    /\ UNCHANGED <<err2, inits, second, tools>>

\* os.Rename(tmppath, dbpath), then the deferred f.Close()
CommitRename(p) ==
    /\ pc[p] = "rename"
    /\ \/ /\ names[tmppath] # 0
          /\ SetFS(FsClose(FsRename(Cur, tmppath, DBFileName), p))
          /\ UNCHANGED <<err, faults>>
       \/ /\ Fault(1)
          /\ SetFS(FsClose(Cur, p))
          /\ err' = [err EXCEPT ![p] = "rename"]
    /\ pc' = [pc EXCEPT ![p] = "unlock"]
    /\ UNCHANGED <<sentinel, held, attempts, target, arg, c, readDoc, unlocks>>
    /\ UNCHANGED <<err2, inits, second, tools>>

\* the deferred lock.Unlock(), and the return of the Committer
CommitUnlock(p) ==
    /\ pc[p] = "unlock"
    /\ \E ufail \in BOOLEAN :
         /\ Unlock(p, ufail)
         /\ err' = [err EXCEPT ![p] = CommitterErr(@, UnlockErr(p, ufail))]
    /\ pc' = [pc EXCEPT ![p] = "idle"]
    /\ target' = [target EXCEPT ![p] = ZeroPayload]
    /\ readDoc' = [readDoc EXCEPT ![p] = <<>>]
    /\ UNCHANGED <<names, inodes, sentinel, fd, attempts, arg, c, faults>>
    /\ UNCHANGED <<inits, second, tools>>

\* the Committer is invoked by a second thread while an invocation of it is
\* executing: the one-shot check (line 157) and, for the invocation that
\* fails it, the panic (line 158)
CommitCallConcurrent(p) ==
    /\ pc[p] \in {"create", "encode", "sync", "rename", "unlock"}
    /\ second[p] = "none"
    /\ second' = [second EXCEPT ![p] = IF ~CompareAndSwap(c[p]) THEN "panicked"
                                                                ELSE "committing"]
    /\ UNCHANGED <<names, inodes, sentinel, held, pc, fd, attempts, target, arg, c>>
    /\ UNCHANGED <<err, readDoc, unlocks, err2, faults, inits, tools>>

(***************************************************************************)
(* Read.                                                                   *)
(***************************************************************************)
\* a slip: Read goes on only when the lock is free
ReadCallWaitsForLock(p) ==
    /\ pc[p] = "idle"
    /\ c[p] # "fresh"
    /\ LockFree
    /\ \E fail \in BOOLEAN, fresh \in BOOLEAN :
         /\ Fault(B(fail))
         /\ target' = [target EXCEPT ![p] = IF fresh THEN ZeroPayload ELSE @]
         /\ IF fail \/ names[DBFileName] = 0
            THEN /\ err' = [err EXCEPT ![p] = "open"]
                 /\ UNCHANGED <<pc, fd>>
            ELSE /\ fd' = FsOpen(Cur, p, DBFileName).fd
                 /\ pc' = [pc EXCEPT ![p] = "rDecode"]
                 /\ err' = [err EXCEPT ![p] = "nil"]
    /\ c' = [c EXCEPT ![p] = "nil"]
    /\ arg' = [arg EXCEPT ![p] = NilIface]
    /\ unlocks' = [unlocks EXCEPT ![p] = 0]
    /\ err2' = [err2 EXCEPT ![p] = FALSE]
    /\ UNCHANGED <<names, inodes, sentinel, held, attempts, readDoc>>
    /\ UNCHANGED <<inits, second, tools>>

\* Read is called with a new target or with the value the caller already
\* holds; os.Open(dbpath); no lock is taken
ReadCall(p) ==
    /\ pc[p] = "idle"
    /\ c[p] # "fresh"
    /\ \E fail \in BOOLEAN, fresh \in BOOLEAN :
         /\ Fault(B(fail))
         /\ target' = [target EXCEPT ![p] = IF fresh THEN ZeroPayload ELSE @]
         /\ IF fail \/ names[DBFileName] = 0
            THEN /\ err' = [err EXCEPT ![p] = "open"]
                 /\ UNCHANGED <<pc, fd>>
            ELSE /\ fd' = FsOpen(Cur, p, DBFileName).fd
                 /\ pc' = [pc EXCEPT ![p] = "rDecode"]
                 /\ err' = [err EXCEPT ![p] = "nil"]
    /\ c' = [c EXCEPT ![p] = "nil"]
    /\ arg' = [arg EXCEPT ![p] = NilIface]
    /\ unlocks' = [unlocks EXCEPT ![p] = 0]
    /\ err2' = [err2 EXCEPT ![p] = FALSE]
    /\ UNCHANGED <<names, inodes, sentinel, held, attempts, readDoc>>
    /\ UNCHANGED <<inits, second, tools>>

\* d.Decode(&db{DB: marshaler{v}}), f.Close(), and the return of Read
ReadDecode(p) ==
    /\ pc[p] = "rDecode"
    /\ \E fail \in BOOLEAN :
         LET r == Decode(target[p], inodes[fd[p]])
         IN  /\ Fault(B(fail))
             /\ target' = [target EXCEPT ![p] = IF fail THEN @ ELSE r.t]
             /\ err' = [err EXCEPT ![p] = IF fail \/ r.err THEN "unmarshal" ELSE "nil"]
    /\ SetFS(FsClose(Cur, p))
    /\ pc' = [pc EXCEPT ![p] = "idle"]
    /\ UNCHANGED <<sentinel, held, attempts, arg, c, readDoc, unlocks>>
    /\ UNCHANGED <<err2, inits, second, tools>>

(***************************************************************************)
(* Init.                                                                   *)
(***************************************************************************)
\* Init, line 241: the path the initial document is written to
InitPath == DBFileName

\* Init(v, path): the path check and os.Create(dbpath), which fails when the
\* environment says so; no lock is taken
InitWith(p, path, fail, v) ==
    /\ pc[p] = "idle"
    /\ c[p] # "fresh"
    /\ inits < MaxInits
    /\ inits' = inits + 1
    /\ Fault(B(IsAbs(path) /\ fail))
    /\ arg' = [arg EXCEPT ![p] = v]
    /\ IF ~IsAbs(path) \/ fail
       THEN /\ err' = [err EXCEPT ![p] = IF ~IsAbs(path) THEN "ErrNeedAbsPath"
                                                          ELSE "create"]
            /\ UNCHANGED <<names, inodes, fd, pc>>
       ELSE /\ SetFS(FsCreate(Cur, p, InitPath))
            /\ err' = [err EXCEPT ![p] = "nil"]
            /\ pc' = [pc EXCEPT ![p] = "iEncode"]
    /\ c' = [c EXCEPT ![p] = "nil"]
    /\ unlocks' = [unlocks EXCEPT ![p] = 0]
    /\ err2' = [err2 EXCEPT ![p] = FALSE]
    /\ UNCHANGED <<sentinel, held, attempts, target, readDoc, second, tools>>

\* a call of Init
InitCall(p) ==
    \E path \in Paths, fail \in BOOLEAN, v \in Payloads : InitWith(p, path, fail, v)

\* e.Encode(getDBObj(v))
InitEncode(p) ==
    /\ pc[p] = "iEncode"
    /\ LET b == Encode(getDBObj(arg[p], UserCurrent(p)))
       IN  \/ /\ SetFS(FsWrite(Cur, p, b))
              /\ pc' = [pc EXCEPT ![p] = "iSync"]
              /\ UNCHANGED <<err, faults>>
           \/ \E short \in ShortWrites(b) :
                /\ Fault(1)
                /\ SetFS(FsClose(FsWrite(Cur, p, short), p))
                /\ err' = [err EXCEPT ![p] = "marshal"]
                /\ pc' = [pc EXCEPT ![p] = "idle"]
    /\ UNCHANGED <<sentinel, held, attempts, target, arg, c, readDoc, unlocks>>
    /\ UNCHANGED <<err2, inits, second, tools>>

\* f.Sync(), f.Close(), and the return of Init
InitSync(p) ==
    /\ pc[p] = "iSync"
    /\ \E fail \in BOOLEAN :
         /\ Fault(B(fail))
         /\ err' = [err EXCEPT ![p] = IF fail THEN "sync" ELSE "nil"]
    /\ SetFS(FsClose(Cur, p))
    /\ pc' = [pc EXCEPT ![p] = "idle"]
    /\ UNCHANGED <<sentinel, held, attempts, target, arg, c, readDoc, unlocks>>
    /\ UNCHANGED <<err2, inits, second, tools>>

(***************************************************************************)
(* Specifications.                                                         *)
(***************************************************************************)
Idle ==
    /\ sentinel = FALSE
    /\ held = [p \in Procs |-> FALSE]
    /\ pc = [p \in Procs |-> "idle"]
    /\ fd = [p \in Procs |-> 0]
    /\ attempts = [p \in Procs |-> 0]
    /\ target = [p \in Procs |-> ZeroPayload]
    /\ arg = [p \in Procs |-> NilIface]
    /\ c = [p \in Procs |-> "nil"]
    /\ err = [p \in Procs |-> "nil"]
    /\ readDoc = [p \in Procs |-> <<>>]
    /\ unlocks = [p \in Procs |-> 0]
    /\ err2 = [p \in Procs |-> FALSE]
    /\ faults = 0
    /\ inits = 0
    /\ second = [p \in Procs |-> "none"]

\* a directory in which Init(v0, dir) has succeeded and nothing else has run
Init ==
    /\ names = [n \in FileNames |-> IF n = DBFileName THEN 1 ELSE 0]
    /\ \E v0 \in Payloads, p0 \in Procs :
         inodes = [i \in Inodes |-> IF i = 1 THEN Encode(getDBObj(v0, UserCurrent(p0)))
                                             ELSE <<>>]
    /\ Idle
    /\ ToolsOff

OpenStep == \E p \in Procs : OpenCall(p) \/ TryLock(p) \/ OpenFile(p) \/ OpenDecode(p)

CommitStep == \E p \in Procs : \/ CommitCall(p) \/ CommitCreate(p) \/ CommitEncode(p)
                               \/ CommitSync(p) \/ CommitRename(p) \/ CommitUnlock(p)

ReadStep == \E p \in Procs : ReadCall(p) \/ ReadDecode(p)

InitStep == \E p \in Procs : InitCall(p) \/ InitEncode(p) \/ InitSync(p)

Next == OpenStep \/ CommitStep \/ ReadStep \/ InitStep

NextTx == OpenStep \/ CommitStep \/ ReadStep

\* every operation of the store, by any process, at any time
Spec == Init /\ [][Next]_vars

\* the transactions and reads alone: Init is not called again once the
\* database is set up
SpecTx == Init /\ [][NextTx]_vars

NextRT == InitStep \/ ReadStep

\* Init and Read alone: nothing but Init writes the document
SpecRT == Init /\ [][NextRT]_vars

ThreadStep == \E p \in Procs : CommitCallConcurrent(p)

NextThreads == OpenStep \/ CommitStep \/ ReadStep \/ ThreadStep

\* the transactions and reads, a Committer being invoked from two threads
SpecThreads == Init /\ [][NextThreads]_vars

\* documents a `data` file may hold when other tools or hands have written
\* it: the envelope's Version and Time well-typed, ill-typed or absent, a
\* field the envelope does not know, and a payload that fits the target, does
\* not fit it, or is absent; the payload before or after the other fields
VersionMembers == {<<>>, <<"Version", BuildVersion>>, <<"Version", "{", "}">>}
TimeMembers == {<<>>, <<"Time", Now>>, <<"Time", "yesterday">>}
ExtraMembers == {<<>>, <<"Extra", "x">>}
DBMembers ==
    {<<>>,
     <<"DB">> \o MarshalJSON(Payload(MakeMap([k \in {1} |-> 1]))),
     <<"DB", "{", "Students", "{", "1", "x", "}", "}">>}
Docs ==
    {<<"{">> \o a \o b \o x \o d \o <<"}", "\n">> :
        a \in VersionMembers, b \in TimeMembers, x \in ExtraMembers, d \in DBMembers}
    \cup
    {<<"{">> \o d \o a \o b \o <<"}", "\n">> :
        a \in VersionMembers, b \in TimeMembers, d \in DBMembers}

\* a directory whose `data` file holds any of these documents
InitDocs ==
    /\ names = [n \in FileNames |-> IF n = DBFileName THEN 1 ELSE 0]
    /\ \E s \in Docs : inodes = [i \in Inodes |-> IF i = 1 THEN s ELSE <<>>]
    /\ Idle
    /\ ToolsOff

NextDocs == OpenStep \/ ReadStep

\* Open and Read on such a directory
SpecDocs == InitDocs /\ [][NextDocs]_vars

(***************************************************************************)
(* The command add-assignment (src/unnamed/part_000).  ctx.DB holds, for   *)
(* every assignment code, the assignment ("none" when there is none, "old" *)
(* for the one in the database, "new" for the one the command has parsed)  *)
(* and the number of grades entered for it.                                *)
(***************************************************************************)
Codes == 1..MaxCodes

\* the databases a course can have: grades are entered for assignments only
DBs == {d \in [asgn : [Codes -> {"none", "old"}], grades : [Codes -> 0..MaxGrades]] :
          \A k \in Codes : d.grades[k] > 0 => d.asgn[k] # "none"}

\* ctx.DB.AddAssignment(asgn): refused when the code is in the database
AddAssignment(db, code) ==
    [ok |-> db.asgn[code] = "none",
     db |-> IF db.asgn[code] = "none" THEN [db EXCEPT !.asgn[code] = "new"] ELSE db]

\* ctx.DB.DeleteAssignment(code)
DeleteAssignment(db, code) == [db EXCEPT !.asgn[code] = "none"]

\* a slip: the grades are not looked at
HasGradesNever(db, code) == FALSE

\* line 49: len(ctx.DB.Grades[asgn.Code]) > 0
HasGrades(db, code) == db.grades[code] > 0

\* the store as these specifications leave it: initialised, nobody using it
StoreIdle ==
    /\ names = [n \in FileNames |-> IF n = DBFileName THEN 1 ELSE 0]
    /\ inodes = [i \in Inodes |-> IF i = 1 THEN Encode(getDBObj(ZeroPayload, UserCurrent(1)))
                                           ELSE <<>>]
    /\ Idle

\* the command is started with an assignment file that parsed, with or
\* without --force, on any database
InitAdd ==
    /\ StoreIdle
    /\ hi = [pc |-> "off"] /\ vh = [pc |-> "off"]
    /\ \E d \in DBs, code \in Codes, force \in BOOLEAN :
         aa = [pc |-> "open", force |-> force, code |-> code, db0 |-> d, stored |-> d,
               db |-> d, opened |-> FALSE, changed |-> FALSE, out |-> "none"]

\* lines 36-41: ctx.OpenDB(); dev.Fail() when it fails
AaOpenDB ==
    /\ aa.pc = "open"
    /\ \E fail \in BOOLEAN :
         aa' = IF fail THEN [aa EXCEPT !.pc = "done", !.out = "failed"]
               ELSE [aa EXCEPT !.pc = "add", !.opened = TRUE, !.db = aa.stored]
    /\ UNCHANGED <<store, hi, vh>>

\* lines 43-60: AddAssignment, and with --force the replacement of an
\* assignment without grades
AaAdd ==
    /\ aa.pc = "add"
    /\ LET r == AddAssignment(aa.db, aa.code)
       IN  aa' = IF r.ok
                 THEN [aa EXCEPT !.pc = "finish", !.db = r.db, !.changed = TRUE]
                 ELSE IF aa.force
                 THEN IF HasGrades(aa.db, aa.code)
                      THEN [aa EXCEPT !.pc = "done", !.out = "failed"]
                      ELSE [aa EXCEPT !.pc = "finish", !.changed = TRUE,
                                      !.db = AddAssignment(DeleteAssignment(aa.db, aa.code),
                                                           aa.code).db]
                 ELSE [aa EXCEPT !.pc = "finish"]
    /\ UNCHANGED <<store, hi, vh>>

\* lines 62-74: ctx.CommitDB() when the database was changed, else
\* ctx.CloseDB(); dev.Fail() when that fails
AaFinish ==
    /\ aa.pc = "finish"
    /\ \E fail \in BOOLEAN :
         aa' = IF fail THEN [aa EXCEPT !.pc = "done", !.out = "failed"]
               ELSE IF aa.changed
               THEN [aa EXCEPT !.pc = "done", !.out = "committed", !.stored = aa.db]
               ELSE [aa EXCEPT !.pc = "done", !.out = "closed"]
    /\ UNCHANGED <<store, hi, vh>>

NextAdd == AaOpenDB \/ AaAdd \/ AaFinish

\* one run of add-assignment
SpecAdd == InitAdd /\ [][NextAdd]_vars

(***************************************************************************)
(* handin.InitFaclHandin (src/lib/handin/handin.go).  hi.dir says what is  *)
(* at the path dir: nothing ("absent"), something that was there before    *)
(* the call ("foreign") or the directory the call made ("made"); hi.sub    *)
(* says how far the entry of each UID in it has got.                       *)
(***************************************************************************)
UIDs == 1..MaxUids

\* the lists of UIDs a caller may pass, repetitions included
UidLists == UNION {[1..n -> UIDs] : n \in 0..MaxUids}

\* os.RemoveAll(dir)
RemoveAll(h) == [h EXCEPT !.dir = "absent", !.sub = [u \in UIDs |-> "none"],
                          !.removed = TRUE]

\* lines 120-124: the deferred function, once it is registered, and the return
HiReturn(h, e) ==
    LET r == [h EXCEPT !.pc = "done", !.err = e]
    IN  IF e # "nil" THEN RemoveAll(r) ELSE r

\* the next UID of the loop at line 130, or the return at line 160
HiNextUid(h) ==
    IF h.i < Len(h.uids) THEN [h EXCEPT !.pc = "umkdir", !.i = h.i + 1]
    ELSE HiReturn(h, "nil")

\* the call: any list of UIDs, the path free or taken
InitHandin ==
    /\ StoreIdle
    /\ aa = [pc |-> "off"] /\ vh = [pc |-> "off"]
    /\ \E l \in UidLists, d \in {"absent", "foreign"} :
         hi = [pc |-> "mkdir", uids |-> l, i |-> 0, dir |-> d,
               sub |-> [u \in UIDs |-> "none"], made |-> FALSE, err |-> "nil",
               removed |-> FALSE]

\* lines 98-101: os.Mkdir(dir, mode) fails when something is at the path, or
\* when the system says so
HiMkdir ==
    /\ hi.pc = "mkdir"
    /\ \E fail \in BOOLEAN :
         hi' = IF fail \/ hi.dir # "absent"
               THEN [hi EXCEPT !.pc = "done", !.err = "mkdir"]
               ELSE [hi EXCEPT !.pc = "chmod", !.dir = "made", !.made = TRUE]
    /\ UNCHANGED <<store, aa, vh>>

\* lines 104-107: os.Chmod(dir, mode); the deferred function is registered
\* after it
HiChmod ==
    /\ hi.pc = "chmod"
    /\ \E fail \in BOOLEAN :
         hi' = IF fail THEN [hi EXCEPT !.pc = "done", !.err = "chmod"]
               ELSE HiNextUid(hi)
    /\ UNCHANGED <<store, aa, vh>>

\* lines 136-139: os.Mkdir(path, ...) for the UID; it fails when the UID was
\* in the list before
HiUidMkdir ==
    /\ hi.pc = "umkdir"
    /\ LET u == hi.uids[hi.i]
       IN  \E fail \in BOOLEAN :
             hi' = IF fail \/ hi.sub[u] # "none" THEN HiReturn(hi, "mkdir uid")
                   ELSE [hi EXCEPT !.pc = "uacl", !.sub[u] = "dir"]
    /\ UNCHANGED <<store, aa, vh>>

\* lines 145-153: acl.Set(path, a)
HiUidAcl ==
    /\ hi.pc = "uacl"
    /\ LET u == hi.uids[hi.i]
       IN  \E fail \in BOOLEAN :
             hi' = IF fail THEN HiReturn(hi, "acl uid")
                   ELSE [hi EXCEPT !.pc = "ufile", !.sub[u] = "acl"]
    /\ UNCHANGED <<store, aa, vh>>

\* lines 155-158 and makeHandinFile: os.Create of the handin file, which may
\* fail, and acl.Set on it, which may fail with the file made
HiUidFile ==
    /\ hi.pc = "ufile"
    /\ LET u == hi.uids[hi.i]
       IN  \E createFails \in BOOLEAN, aclFails \in BOOLEAN :
             hi' = IF createFails THEN HiReturn(hi, "create file")
                   ELSE IF aclFails THEN HiReturn([hi EXCEPT !.sub[u] = "file"], "acl file")
                   ELSE HiNextUid([hi EXCEPT !.sub[u] = "ready"])
    /\ UNCHANGED <<store, aa, vh>>

NextHandin == HiMkdir \/ HiChmod \/ HiUidMkdir \/ HiUidAcl \/ HiUidFile

\* one call of InitFaclHandin
SpecHandin == InitHandin /\ [][NextHandin]_vars

(***************************************************************************)
(* validateHandins (src/lib/kudos/assignment_parse.go).  A code is a       *)
(* string; a handin is a parseableHandin, its Code and Due pointers given  *)
(* by hasCode and hasDue; a problem is a parseableProblem with its         *)
(* subproblems.                                                            *)
(***************************************************************************)
\* ValidateCode(c) = nil: "!" stands for the codes it rejects
ValidateCode(code) == code # "!"

Problem(code, subs) == [code |-> code, subproblems |-> subs]

\* problem trees that validateProblemTree accepts: codes valid and distinct
ProblemTrees ==
    {<<Problem("a", <<Problem("s", <<>>)>>)>>,
     <<Problem("a", <<>>), Problem("b", <<>>)>>,
     <<Problem("a", <<Problem("s", <<>>)>>), Problem("b", <<>>)>>}

\* the problem codes a handin may list: of top-level problems, of a
\* subproblem, of no problem, and one that is no code
ListedCodes == {"a", "b", "s", "x", "!"}

\* the handins a decoded assignment file may hold; code() of a handin without
\* a code is ""
Handins ==
    {[hasCode |-> hc[1], code |-> hc[2], hasDue |-> d, problems |-> l] :
        hc \in {<<FALSE, "">>, <<TRUE, "h1">>, <<TRUE, "h2">>, <<TRUE, "!">>},
        d \in BOOLEAN,
        l \in UNION {[1..n -> ListedCodes] : n \in 0..MaxListed}}

HandinLists == UNION {[1..n -> Handins] : n \in 0..MaxHandins}

\* lines 295-298: the keys of topLevelProblemsByCode
TopLevelCodes(problems) == {problems[j].code : j \in 1..Len(problems)}

RECURSIVE AllCodes(_)
\* lines 299-307: the keys of problemsByCode
AllCodes(problems) ==
    IF Len(problems) = 0 THEN {}
    ELSE {problems[1].code} \cup AllCodes(problems[1].subproblems)
         \cup AllCodes(Tail(problems))

\* lines 313-327: the switch on a handin h, n handins being defined
HandinSwitch(n, h) ==
    IF n = 1 /\ h.hasCode THEN "one handin defined; cannot have handin code"
    ELSE IF n > 1 /\ ~h.hasCode THEN "multiple handins defined; each must have a handin code"
    ELSE IF n > 1 THEN (IF ~ValidateCode(h.code) THEN "bad handin code" ELSE "nil")
    ELSE IF ~h.hasDue THEN "handin must have due date"
    ELSE "nil"

\* a slip: a problem of any level passes for a top-level one
okTopAlways(top, pcode) == TRUE

\* line 347: _, okTop := topLevelProblemsByCode[pc]
okTop(top, pcode) == pcode \in top

RECURSIVE ListedLoop(_, _, _, _, _)
\* lines 342-361: the loop over the problem codes pc of handin h, from the
\* j-th; pcode is the loop's pc
ListedLoop(h, j, top, all, seenProblems) ==
    IF j > Len(h.problems) THEN [err |-> "nil", seenProblems |-> seenProblems]
    ELSE LET pcode == h.problems[j]
         IN  IF ~ValidateCode(pcode)
             THEN [err |-> "contains bad problem code", seenProblems |-> seenProblems]
             ELSE IF pcode \notin all
             THEN [err |-> "specifies nonexistent problem", seenProblems |-> seenProblems]
             ELSE IF ~okTop(top, pcode)
             THEN [err |-> "specifies non-top-level problem", seenProblems |-> seenProblems]
             ELSE IF pcode \in DOMAIN seenProblems
             THEN [err |-> "includes problem also included", seenProblems |-> seenProblems]
             ELSE ListedLoop(h, j + 1, top, all,
                             [k \in DOMAIN seenProblems \cup {pcode} |->
                                IF k = pcode THEN h.code ELSE seenProblems[k]])

RECURSIVE HandinLoop(_, _, _, _, _, _)
\* lines 312-362: the loop over the handins, from the i-th
HandinLoop(handins, i, top, all, seenHandinCodes, seenProblems) ==
    IF i > Len(handins) THEN [err |-> "nil", seenProblems |-> seenProblems]
    ELSE LET h == handins[i]
             n == Len(handins)
             e == HandinSwitch(n, h)
         IN  IF e # "nil" THEN [err |-> e, seenProblems |-> seenProblems]
             ELSE IF n > 1 /\ h.code \in seenHandinCodes
             THEN [err |-> "duplicate handin code", seenProblems |-> seenProblems]
             ELSE IF Len(h.problems) = 0
             THEN [err |-> "must specify at least one problem", seenProblems |-> seenProblems]
             ELSE LET r == ListedLoop(h, 1, top, all, seenProblems)
                  IN  IF r.err # "nil" THEN r
                      ELSE HandinLoop(handins, i + 1, top, all,
                                      seenHandinCodes \cup {h.code}, r.seenProblems)

\* validateHandins(handins, problems): the error, "nil" for none
validateHandins(handins, problems) ==
    IF Len(handins) = 0 THEN "must have at least one handin"
    ELSE LET r == HandinLoop(handins, 1, TopLevelCodes(problems), AllCodes(problems),
                             {}, [k \in {} |-> ""])
         IN  IF r.err # "nil" THEN r.err
             ELSE IF \E j \in 1..Len(problems) : problems[j].code \notin DOMAIN r.seenProblems
             THEN "problem not in any handins"
             ELSE "nil"

\* validateAssignment has accepted the problems and calls validateHandins
InitValidate ==
    /\ StoreIdle
    /\ aa = [pc |-> "off"] /\ hi = [pc |-> "off"]
    /\ \E hs \in HandinLists, ps \in ProblemTrees :
         vh = [pc |-> "call", handins |-> hs, problems |-> ps, err |-> "nil"]

\* the call returns
Validate ==
    /\ vh.pc = "call"
    /\ vh' = [vh EXCEPT !.pc = "done", !.err = validateHandins(vh.handins, vh.problems)]
    /\ UNCHANGED <<store, aa, hi>>

\* one call of validateHandins
SpecValidate == InitValidate /\ [][Validate]_vars

\* p has the lock for a transaction: its Open has acquired it, and the
\* Committer that Open returned (or will return) has not finished
InTxn(p) ==
    \/ pc[p] \in {"openfile", "decode", "create", "encode", "sync", "rename", "unlock"}
    \/ pc[p] = "idle" /\ c[p] = "fresh"

\* a process in a transaction takes its next step: the next statement of Open
\* or of the Committer, or the caller's invocation of the Committer it was
\* given (a command commits or closes before it exits)
Progress(p) ==
    /\ InTxn(p)
    /\ \E x \in PcValues \ {pc[p]} : pc' = [pc EXCEPT ![p] = x]

\* the transactions and reads, every process in a transaction running on
SpecLive == SpecTx /\ \A p \in Procs : WF_pc(Progress(p))

(***************************************************************************)
(* Properties.                                                             *)
(***************************************************************************)
\* p takes a step of the handler it is in
Steps(p) == pc'[p] # pc[p]

\* the payload a document holds, as a new target receives it
DocValue(s) == Decode(ZeroPayload, s).t

WriteErrors == {"create", "marshal", "sync", "rename"}

\* C1: at most one transaction holds the lock at any instant, and an Open whose
\* last lock attempt still finds another transaction in flight returns
\* ErrLockFailed and no Committer.
C1_MutualExclusion ==
    /\ [](/\ Cardinality({p \in Procs : InTxn(p)}) <= 1
          /\ \A p \in Procs : InTxn(p) => held[p]
          /\ \A p \in Procs : pc[p] = "idle" /\ err[p] = "ErrLockFailed" => c[p] = "nil")
    /\ [][\A p \in Procs :
            /\ pc[p] = "trylock" /\ attempts[p] = LockAttempts - 1
            /\ \E q \in Procs \ {p} : InTxn(q)
            /\ Steps(p) /\ faults' = faults
            => /\ pc'[p] = "idle" /\ err'[p] = "ErrLockFailed"
               /\ c'[p] = "nil" /\ ~held'[p]]_vars

\* C1 witness: one process is in its transaction and another has been refused
C1_Witness ==
    \E p \in Procs, q \in Procs :
        InTxn(p) /\ pc[q] = "idle" /\ err[q] = "ErrLockFailed" /\ c[q] = "nil"

\* C2: while a Committer is between the creation of the temp file and the
\* rename (where a kill would stop it), the live document is what it was
\* when the Committer was called, which is what its Open read.
C2_AtomicUnderCrash ==
    \A p \in Procs : pc[p] \in {"encode", "sync", "rename"} => Live = readDoc[p]

\* C2 witness: a complete new document is staged and differs from the live one
C2_Witness ==
    \E p \in Procs : pc[p] = "rename" /\ IsComplete(Temp) /\ Temp # Live

\* C3: a Committer whose create, encode, sync or rename failed returns that
\* error, and the live document is still the one its transaction began with.
C3_FailedWriteKeepsLive ==
    /\ [](\A p \in Procs : pc[p] = "unlock" /\ err[p] \in WriteErrors
                            => Live = readDoc[p])
    /\ [][\A p \in Procs : pc[p] = "unlock" /\ err[p] \in WriteErrors /\ Steps(p)
                            => pc'[p] = "idle" /\ err'[p] = err[p] /\ Live' = Live]_vars

\* C3 witness: the rename failed with the new document staged
C3_Witness ==
    \E p \in Procs : /\ pc[p] = "unlock" /\ err[p] = "rename"
                     /\ IsComplete(Temp) /\ Temp # Live

\* p returns from an Open that fails after it had the lock, or from a
\* Committer whose write failed
FailsWithLock(p) ==
    /\ pc'[p] = "idle"
    /\ \/ pc[p] \in {"openfile", "decode"} /\ err'[p] \in {"open", "unmarshal"}
       \/ pc[p] = "unlock" /\ err[p] \in WriteErrors

C5_DoubleCommitPanics ==
    /\ [](\A p \in Procs : unlocks[p] <= 1)
    /\ [][\A p \in Procs :
            pc[p] = "idle" /\ c[p] = "done" /\ Steps(p) /\ c'[p] = "done"
            => /\ pc'[p] = "panicked"
               /\ UNCHANGED <<names, inodes, sentinel, held, unlocks>>]_vars
    /\ [][\A p \in Procs : pc[p] = "panicked" => pc'[p] = "panicked"]_vars

\* C5 witness: a Committer panicked after its write failed, another after its
\* write succeeded
C5_Witness ==
    \E p \in Procs, q \in Procs :
        /\ pc[p] = "panicked" /\ err[p] \in WriteErrors
        /\ pc[q] = "panicked" /\ err[q] = "nil" /\ ~arg[q].isNil

\* C6: from a successful Open until its Committer renames or abandons, the
\* live document is what that Open read, whatever the other processes call.
C6_ExclusiveAccess ==
    \A p \in Procs :
        \/ pc[p] = "idle" /\ c[p] = "fresh"
        \/ pc[p] \in {"create", "encode", "sync", "rename"}
        => Live = readDoc[p]

\* C7: a Read decodes a whole document, the live one or one that was live
\* when Read opened it, never the file a Committer is writing; so it fails
\* only when the read itself fails.
C7_ReadSeesWholeVersion ==
    /\ [](\A p \in Procs : pc[p] = "rDecode"
            => /\ IsComplete(inodes[fd[p]])
               /\ fd[p] # names[DBTempFileName])
    /\ [][\A p \in Procs : pc[p] = "rDecode" /\ Steps(p) /\ faults' = faults
            => err'[p] = "nil" /\ target'[p] = Decode(target[p], inodes[fd[p]]).t]_vars

\* C7 witness: a Read holds the old document while a newer one is live
C7_Witness ==
    \E p \in Procs : /\ pc[p] = "rDecode" /\ fd[p] # names[DBFileName]
                     /\ DocValue(inodes[fd[p]]) # DocValue(Live)

\* C8: once the database exists, the live file holds a complete document in
\* every state, under every operation of the store.
C8_LiveAlwaysComplete == IsComplete(Live)

InitDone(p) ==
    /\ pc[p] = "idle" /\ inits > 0 /\ err[p] = "nil" /\ ~arg[p].isNil
    /\ \A r \in Procs : pc[r] \notin {"iEncode", "iSync"}
    /\ Live = Encode(getDBObj(arg[p], UserCurrent(p)))

\* C10 as stated: after a successful Init(v, dir) and no other write, a Read
\* leaves its target equal to v.
C10_RoundTrip ==
    [][\A p \in Procs : \A q \in Procs \ {p} :
         InitDone(p) /\ pc[q] = "rDecode" /\ Steps(q) /\ faults' = faults
         => err'[q] = "nil" /\ target'[q] = arg[p]]_vars

\* the target holds no map entry under a key that v lacks
NoForeignKeys(t, v) ==
    v.Students.isnil \/ DOMAIN t.Students.m \subseteq DOMAIN v.Students.m

\* C10 as amended: after a successful Init(v, dir) and no other write, a Read
\* into a target that is zero-valued, or holds no map entry v lacks, leaves
\* the target equal to v.
C10_RoundTripNewTarget ==
    [][\A p \in Procs : \A q \in Procs \ {p} :
         /\ InitDone(p) /\ pc[q] = "rDecode" /\ Steps(q) /\ faults' = faults
         /\ NoForeignKeys(target[q], arg[p])
         => err'[q] = "nil" /\ target'[q] = arg[p]]_vars

\* C10 witness: Init has written a student and a Read with a new target is
\* about to decode the document
C10_Witness ==
    \E p \in Procs : \E q \in Procs \ {p} :
        /\ InitDone(p) /\ arg[p] = Payload(MakeMap([k \in {1} |-> 1]))
        /\ pc[q] = "rDecode" /\ target[q] = ZeroPayload

\* C11: Open and Init called with a relative path return ErrNeedAbsPath, Open
\* with no Committer, and leave the directory, the files, the lock file and
\* every lock as they were, with no lock attempt made.
C11_RelativePathRejected ==
    [][\A p \in Procs :
         /\ OpenWith(p, RelPath)
            => /\ pc'[p] = "idle" /\ err'[p] = "ErrNeedAbsPath" /\ c'[p] = "nil"
               /\ UNCHANGED <<names, inodes, sentinel, held, attempts, fd>>
         /\ \A fail \in BOOLEAN, v \in Payloads :
              InitWith(p, RelPath, fail, v)
              => /\ pc'[p] = "idle" /\ err'[p] = "ErrNeedAbsPath"
                 /\ UNCHANGED <<names, inodes, sentinel, held, attempts, fd>>]_vars

\* C11 witness: an Open and an Init have been refused for their path, and no
\* lock file exists
C11_Witness ==
    \E p \in Procs : \E q \in Procs \ {p} :
        /\ pc[p] = "idle" /\ err[p] = "ErrNeedAbsPath" /\ arg[p].isNil
        /\ pc[q] = "idle" /\ err[q] = "ErrNeedAbsPath" /\ ~arg[q].isNil
        /\ ~sentinel /\ names[DBTempFileName] = 0 /\ LockFree

\* C12: a Committer invoked with nil goes straight to the release of the lock:
\* it never creates, writes or renames a file, so `data` and `data.tmp` are as
\* they were, and when it returns nil its lock is free.
C12_AbandonWritesNothing ==
    /\ [](\A p \in Procs :
            /\ pc[p] \in {"create", "encode", "sync", "rename"} => ~arg[p].isNil
            /\ pc[p] = "unlock" /\ arg[p].isNil => Live = readDoc[p] /\ err[p] = "nil")
    /\ [][\A p \in Procs :
            pc[p] = "idle" /\ c[p] = "fresh" /\ Steps(p) /\ arg'[p].isNil
            => /\ pc'[p] = "unlock"
               /\ UNCHANGED <<names, inodes, fd, sentinel, held>>]_vars
    /\ [][\A p \in Procs :
            pc[p] = "unlock" /\ arg[p].isNil /\ Steps(p)
            => /\ pc'[p] = "idle"
               /\ UNCHANGED <<names, inodes, fd, sentinel>>
               /\ \A q \in Procs \ {p} : held'[q] = held[q]
               /\ err'[p] = "nil" => ~held'[p]]_vars

\* C12 witness: a transaction was abandoned while an earlier write's temp file
\* was still in the directory, and the lock is free again
C12_Witness ==
    \E p \in Procs :
        /\ pc[p] = "idle" /\ c[p] = "done" /\ arg[p].isNil /\ err[p] = "nil"
        /\ unlocks[p] = 1 /\ LockFree
        /\ names[DBTempFileName] # 0

\* p's transaction ends in this step: its Open fails after the lock was
\* acquired, or its Committer returns
TxnEnds(p) == InTxn(p) /\ ~InTxn(p)'

\* C13: for the Lock an Open acquired, Unlock is not called while the
\* transaction is open, is called exactly once in the step that ends it (the
\* failure path of Open or the first Committer invocation), and is never
\* called again, whatever errors occur; an Open that did not get the lock
\* calls no Unlock.
C13_ReleaseExactlyOnce ==
    /\ [](\A p \in Procs : /\ unlocks[p] <= 1
                           /\ InTxn(p) => unlocks[p] = 0
                           /\ pc[p] = "trylock" => unlocks[p] = 0
                           /\ c[p] = "done" /\ pc[p] \in {"idle", "panicked"}
                              => unlocks[p] = 1)
    /\ [][\A p \in Procs :
            /\ TxnEnds(p) => unlocks[p] = 0 /\ unlocks'[p] = 1
            /\ unlocks'[p] > unlocks[p] => TxnEnds(p)
            /\ pc[p] = "trylock" /\ pc'[p] = "idle" => unlocks'[p] = 0]_vars

\* C13 witness: one Lock was released by the failure path of Open, another by
\* a Committer that went on to panic at its second invocation
C13_Witness ==
    \E p \in Procs : \E q \in Procs \ {p} :
        /\ pc[p] = "idle" /\ c[p] = "nil" /\ err[p] \in {"open", "unmarshal"}
        /\ unlocks[p] = 1
        /\ pc[q] = "panicked" /\ unlocks[q] = 1

NewDoc(p) == Encode(getDBObj(arg[p], UserCurrent(p)))

\* C15: a Committer reaches its rename only through create, encode and sync, in
\* this order and each of them succeeding, so the file it renames is the whole
\* synced document; a step that fails ends the call without a rename; and the
\* live document changes only by such a rename.
C15_RenameAfterSync ==
    /\ [](\A p \in Procs : pc[p] = "rename" => err[p] = "nil" /\ Temp = NewDoc(p))
    /\ [][\A p \in Procs : Steps(p) =>
            /\ pc'[p] = "create" => pc[p] = "idle"
            /\ pc'[p] = "encode" => pc[p] = "create"
            /\ pc'[p] = "sync" => pc[p] = "encode" /\ Temp' = NewDoc(p)
            /\ pc'[p] = "rename" => pc[p] = "sync"
            /\ pc'[p] \in {"encode", "sync", "rename"} => faults' = faults
            /\ pc[p] \in {"create", "encode", "sync"} /\ faults' # faults
               => /\ pc'[p] = "unlock" /\ err'[p] \in {"create", "marshal", "sync"}
                  /\ Live' = Live /\ names' = names]_vars
    /\ [][Live' # Live \/ (names[DBTempFileName] # 0 /\ names'[DBTempFileName] = 0)
            => \E p \in Procs : /\ pc[p] = "rename" /\ pc'[p] = "unlock"
                                /\ err'[p] = "nil" /\ Live' = Temp]_vars

\* C15 witness: the sync of a whole new document has failed and the call is
\* about to end, the live document still the old one
C15_Witness ==
    \E p \in Procs : /\ pc[p] = "unlock" /\ err[p] = "sync"
                     /\ Temp = NewDoc(p) /\ Live # Temp /\ Live = readDoc[p]

\* C16: the lock is held, and Unlock not yet called, from Open's acquisition
\* through the Committer's create, encode, sync and rename; the Committer's
\* Unlock runs only when the rename has completed, the write has failed or
\* there was nothing to write; and during a rename no other process holds the
\* lock.
C16_LockCoversRename ==
    /\ [](\A p \in Procs :
            /\ InTxn(p) => held[p] /\ unlocks[p] = 0
            /\ pc[p] = "unlock"
               => \/ arg[p].isNil
                  \/ err[p] \in WriteErrors
                  \/ err[p] = "nil" /\ Live = NewDoc(p) /\ names[DBTempFileName] = 0)
    /\ [][\A p \in Procs :
            /\ held[p] /\ ~held'[p] => pc[p] \in {"openfile", "decode", "unlock"}
            /\ pc[p] = "rename" /\ Steps(p)
               => /\ held[p] /\ held'[p] /\ unlocks'[p] = 0
                  /\ \A q \in Procs \ {p} : ~held[q] /\ ~held'[q]]_vars

\* C16 witness: the rename has put a new document in place and the lock is
\* still held, the Unlock yet to come
C16_Witness ==
    \E p \in Procs : /\ pc[p] = "unlock" /\ err[p] = "nil" /\ ~arg[p].isNil
                     /\ Live = NewDoc(p) /\ Live # readDoc[p]
                     /\ held[p] /\ unlocks[p] = 0

\* C17: the Committer returns the error of its write when the write failed,
\* whether or not Unlock failed too; otherwise it returns a 'release lock'
\* error when Unlock failed; it returns nil only when the write, if there was
\* one, and the Unlock both succeeded.
C17_UnlockFailureReported ==
    [][\A p \in Procs : pc[p] = "unlock" /\ Steps(p) =>
         /\ pc'[p] = "idle" /\ unlocks'[p] = 1
         /\ err[p] \in WriteErrors => err'[p] = err[p]
         /\ err[p] = "nil" /\ err2'[p] => err'[p] = "release lock"
         /\ err[p] = "nil" /\ ~err2'[p] => err'[p] = "nil"
         /\ err'[p] = "nil" => /\ ~err2'[p] /\ ~held'[p]
                               /\ arg[p].isNil \/ Live' = NewDoc(p)]_vars

\* C17 witness: the new document is in place, the Unlock failed, and the
\* Committer has returned the 'release lock' error
C17_Witness ==
    \E p \in Procs : /\ pc[p] = "idle" /\ c[p] = "done" /\ err[p] = "release lock"
                     /\ ~arg[p].isNil /\ Live = NewDoc(p) /\ names[DBTempFileName] = 0
                     /\ err2[p] /\ held[p]

\* the file holds one JSON object whose DB member, if it has one, decodes
\* into the target t without error
PayloadFits(t, s) ==
    LET v == FirstValue(s)
    IN  /\ IsComplete(s) /\ v[1] = "{"
        /\ LET ms == Members(v, 2, Len(v))
           IN  \A j \in 1..Len(ms) : ms[j].k = "DB" => ~UnmarshalJSON(t, ms[j].v).err

\* C18: Open and Read succeed on every stored document whose payload fits the
\* caller's target, whatever the envelope's other fields hold and whatever
\* unknown fields it has.
C18_MetadataNotRequired ==
    [][\A p \in Procs :
         /\ pc[p] \in {"decode", "rDecode"} /\ Steps(p) /\ faults' = faults
         /\ PayloadFits(target[p], inodes[fd[p]])
         => err'[p] = "nil"]_vars

\* C19: when decoding the stored document fails in Open or Read, the call
\* returns an error, Open returns no Committer, and the caller's target is as
\* it was before the call.
C19_FormatErrorNotApplied ==
    [][\A p \in Procs :
         pc[p] \in {"decode", "rDecode"} /\ Steps(p) /\ err'[p] = "unmarshal"
         => pc'[p] = "idle" /\ c'[p] = "nil" /\ target'[p] = target[p]]_vars

\* p makes one lock attempt of the TryLockN call its Open is in
TryStep(p) ==
    /\ pc[p] = "trylock"
    /\ pc'[p] # pc[p] \/ attempts'[p] # attempts[p]

\* C20 as stated: Open makes at most 3 lock attempts, each attempt returns or
\* is followed by the next; ErrLockFailed is returned only at the third
\* attempt and only when another transaction held the lock at every attempt;
\* an attempt that finds the lock free acquires it; an I/O error of the attempt
\* is reported as "acquire lock"; a failed Open holds no lock and changed no
\* file.
C20_OnlyWhenOtherTransaction ==
    /\ [](\A p \in Procs : attempts[p] \in 0 .. LockAttempts - 1)
    /\ [][\A p \in Procs : TryStep(p) =>
            /\ pc'[p] \in {"trylock", "openfile", "idle"}
            /\ pc'[p] = "trylock" => attempts'[p] = attempts[p] + 1
            /\ pc'[p] = "trylock" \/ (pc'[p] = "idle" /\ err'[p] = "ErrLockFailed")
                 => /\ faults' = faults
                    /\ \E q \in Procs \ {p} : held[q] /\ InTxn(q)
            /\ pc'[p] = "idle" /\ err'[p] = "ErrLockFailed"
                 => attempts[p] = LockAttempts - 1
            /\ LockFree /\ faults' = faults
                 => pc'[p] = "openfile" /\ held'[p] /\ err'[p] = "nil"
            /\ faults' # faults => pc'[p] = "idle" /\ err'[p] = "acquire lock"
            /\ pc'[p] = "idle"
                 => /\ err'[p] \in {"ErrLockFailed", "acquire lock"}
                    /\ c'[p] = "nil" /\ unlocks'[p] = 0
                    /\ UNCHANGED <<held, names, inodes, fd>>]_vars

\* C20 as amended: the same, but the lock that ErrLockFailed reports may be
\* held by a transaction of another process or be a Lock that a failed Unlock
\* left held, this process's own earlier one included.
C20_BoundedContention ==
    /\ [](\A p \in Procs : attempts[p] \in 0 .. LockAttempts - 1)
    /\ [][\A p \in Procs : TryStep(p) =>
            /\ pc'[p] \in {"trylock", "openfile", "idle"}
            /\ pc'[p] = "trylock" => attempts'[p] = attempts[p] + 1
            /\ pc'[p] = "trylock" \/ (pc'[p] = "idle" /\ err'[p] = "ErrLockFailed")
                 => /\ faults' = faults
                    /\ ~LockFree
            /\ pc'[p] = "idle" /\ err'[p] = "ErrLockFailed"
                 => attempts[p] = LockAttempts - 1
            /\ LockFree /\ faults' = faults
                 => pc'[p] = "openfile" /\ held'[p] /\ err'[p] = "nil"
            /\ faults' # faults => pc'[p] = "idle" /\ err'[p] = "acquire lock"
            /\ pc'[p] = "idle"
                 => /\ err'[p] \in {"ErrLockFailed", "acquire lock"}
                    /\ c'[p] = "nil" /\ unlocks'[p] = 0
                    /\ UNCHANGED <<held, names, inodes, fd>>]_vars

\* C20 witness: an Open has made its three attempts and returned ErrLockFailed
\* while no other process was in a transaction: the lock it found held is one
\* that a failed Unlock left behind
C20_Witness ==
    \E p \in Procs : \E q \in Procs \ {p} :
        /\ pc[p] = "idle" /\ err[p] = "ErrLockFailed" /\ c[p] = "nil" /\ ~held[p]
        /\ held[q] /\ ~InTxn(q) /\ err2[q]

\* a Committer call of p is executing
InCommit(p) == pc[p] \in {"create", "encode", "sync", "rename", "unlock"}

\* C21 as stated: `data.tmp` exists only while a Committer call is executing.
C21_TempOnlyDuringCommit ==
    names[DBTempFileName] # 0 => \E p \in Procs : InCommit(p)

\* C21 as amended: `data.tmp` comes into being only by the os.Create of a
\* Committer; it is absent when a Committer call that wrote returns without a
\* write error; and as long as no I/O operation has failed it exists only
\* while a Committer call is between its create and its rename.  (A failed
\* write leaves it behind.)
C21_TempGoneAfterWrite ==
    /\ [][names[DBTempFileName] = 0 /\ names'[DBTempFileName] # 0
            => \E p \in Procs : pc[p] = "create" /\ pc'[p] = "encode"]_vars
    /\ [][\A p \in Procs :
            pc[p] = "unlock" /\ Steps(p) /\ ~arg[p].isNil /\ err[p] = "nil"
            => names[DBTempFileName] = 0 /\ names'[DBTempFileName] = 0]_vars
    /\ [](names[DBTempFileName] # 0 /\ faults = 0
            => \E p \in Procs : pc[p] \in {"encode", "sync", "rename"})

\* C21 witness: a Committer call failed in its write and left `data.tmp`;
\* the next Committer call that wrote has returned without error and
\* `data.tmp` is gone
C21_Witness ==
    \E p \in Procs : \E q \in Procs \ {p} :
        /\ pc[q] = "idle" /\ c[q] = "done" /\ err[q] \in {"marshal", "sync", "rename"}
        /\ pc[p] = "idle" /\ c[p] = "done" /\ err[p] = "nil" /\ ~arg[p].isNil
        /\ names[DBTempFileName] = 0

\* p takes a step of Read: the call with its os.Open, or the decoding
ReadSteps(p) ==
    \/ pc[p] = "idle" /\ pc'[p] = "rDecode"
    \/ pc[p] = "rDecode" /\ Steps(p)

\* C22: a process that may call anything may call Read, whoever holds the
\* lock; no step of Read changes who holds the lock, the lock file, the
\* attempts or the Unlock calls made, nor the names and contents of `data`
\* and `data.tmp`; and a Read that meets no I/O failure goes on to decode and
\* returns nil while another process is in a transaction.
C22_ReadLockFree ==
    /\ [](\A p \in Procs : pc[p] = "idle" /\ c[p] # "fresh" => ENABLED ReadCall(p))
    /\ [][\A p \in Procs : ReadCall(p) \/ ReadSteps(p) =>
            /\ UNCHANGED <<held, sentinel, attempts, names>>
            /\ unlocks'[p] <= unlocks[p]
            /\ \A q \in Procs \ {p} : unlocks'[q] = unlocks[q]
            /\ Live' = Live /\ Temp' = Temp]_vars
    /\ [][\A p \in Procs : \A q \in Procs \ {p} :
            (ReadCall(p) \/ ReadSteps(p)) /\ InTxn(q) /\ faults' = faults
            => /\ pc[p] = "idle" => pc'[p] = "rDecode"
               /\ pc[p] = "rDecode" => pc'[p] = "idle" /\ err'[p] = "nil"]_vars

\* C22 witness: a Read has returned nil while the other process, in the
\* middle of its Committer's write, holds the lock, the lock file existing
\* and `data.tmp` holding the document being written
C22_Witness ==
    \E p \in Procs : \E q \in Procs \ {p} :
        /\ pc[p] = "idle" /\ c[p] = "nil" /\ err[p] = "nil" /\ ~held[p]
        /\ target[p] = DocValue(Live) /\ target[p] # ZeroPayload
        /\ pc[q] = "sync" /\ held[q] /\ sentinel
        /\ Temp # Live

\* the Open call of p returns
OpenReturns(p) ==
    \/ OpenWith(p, RelPath)
    \/ pc[p] \in {"trylock", "openfile", "decode"} /\ pc'[p] = "idle"

\* C23 as stated: the lock is held if and only if exactly one process is in
\* a transaction (in Open after its lock acquisition, or holding a Committer
\* whose first invocation has not completed); Open returns a Committer
\* exactly when it returns a nil error.
C23_LockIffTransaction ==
    /\ []((\E p \in Procs : held[p]) <=> Cardinality({p \in Procs : InTxn(p)}) = 1)
    /\ [][\A p \in Procs : OpenReturns(p) => (c'[p] = "fresh" <=> err'[p] = "nil")]_vars

\* C23 as amended: at most one process is in a transaction and it holds the
\* lock; the lock is acquired only by a lock attempt of Open, and when a
\* transaction ends the lock stays held only if the Unlock call failed; Open
\* returns a Committer exactly when it returns a nil error.
C23_TransactionHoldsLock ==
    /\ [](/\ Cardinality({p \in Procs : InTxn(p)}) <= 1
          /\ Cardinality({p \in Procs : held[p]}) <= 1
          /\ \A p \in Procs : InTxn(p) => held[p])
    /\ [][\A p \in Procs :
            /\ ~held[p] /\ held'[p] => pc[p] = "trylock" /\ pc'[p] = "openfile"
            /\ held[p] /\ ~held'[p] => TxnEnds(p)
            /\ TxnEnds(p) /\ held'[p] => err2'[p]]_vars
    /\ [][\A p \in Procs : OpenReturns(p) => (c'[p] = "fresh" <=> err'[p] = "nil")]_vars

\* C23 witness: a Committer has completed, its Unlock failed and was
\* reported; the lock is held and no process is in a transaction
C23_Witness ==
    \E p \in Procs :
        /\ pc[p] = "idle" /\ c[p] = "done" /\ err[p] = "release lock"
        /\ held[p] /\ err2[p]
        /\ \A q \in Procs : ~InTxn(q)

\* C24: whatever an earlier, failed Committer call left in `data.tmp`, the
\* rename of a Committer(v) installs exactly the document of v, whose payload
\* reads back as v; the live document changes by such a rename only, and it
\* is never a part of a document.
C24_StaleTempNotInstalled ==
    /\ [][\A p \in Procs : pc[p] = "rename" /\ Steps(p) /\ err'[p] = "nil"
            => /\ Live' = NewDoc(p)
               /\ DocValue(Live') = arg[p]
               /\ names'[DBTempFileName] = 0]_vars
    /\ [][Live' # Live
            => \E p \in Procs : /\ pc[p] = "rename" /\ pc'[p] = "unlock"
                                /\ err[p] = "nil" /\ Live' = NewDoc(p)]_vars
    /\ [](/\ IsComplete(Live)
          /\ \E v \in Payloads, p \in Procs : Live = Encode(getDBObj(v, UserCurrent(p))))

\* C24 witness: a Committer call of q failed in sync or rename and left a
\* whole document in `data.tmp`; after it the Committer of p has written a
\* shorter document over it and renamed it, and the live document is p's
C24_Witness ==
    \E p \in Procs : \E q \in Procs \ {p} :
        /\ pc[q] = "idle" /\ c[q] = "done" /\ err[q] \in {"sync", "rename"}
        /\ ~arg[q].isNil
        /\ pc[p] = "unlock" /\ err[p] = "nil" /\ ~arg[p].isNil
        /\ Len(NewDoc(q)) > Len(NewDoc(p))
        /\ Live = NewDoc(p)
        /\ names[DBTempFileName] = 0

AaExists == aa.db0.asgn[aa.code] # "none"

\* grades had been entered for it
AaGraded == aa.db0.grades[aa.code] > 0

\* C26: with --force, on an assignment that has a grade, the command fails,
\* ctx.DB still holds the old assignment and nothing is committed; without
\* --force an assignment in the database is left as it is and the database is
\* closed, not committed; the stored database changes by a commit only, and a
\* commit happens only when the assignment was added or, with --force and no
\* grade, replaced, the other assignments and all grades staying as they were.
C26_GradedWorkKept ==
    /\ aa.pc = "done" /\ aa.force /\ AaExists /\ AaGraded
         => aa.out = "failed" /\ aa.db = aa.db0 /\ aa.stored = aa.db0
    /\ aa.pc = "done" /\ ~aa.force /\ AaExists
         => aa.out \in {"closed", "failed"} /\ aa.db = aa.db0 /\ aa.stored = aa.db0
    /\ aa.pc # "off" /\ aa.out # "committed" => aa.stored = aa.db0
    /\ aa.pc # "off" /\ aa.out = "committed"
         => /\ ~AaExists \/ (aa.force /\ ~AaGraded)
            /\ aa.stored = [aa.db0 EXCEPT !.asgn[aa.code] = "new"]

\* C26 witness: the command has run with --force on an assignment with a
\* grade: the database was opened, the command failed, the assignment and
\* the stored database are as before
C26_Witness ==
    /\ aa.pc = "done" /\ aa.opened /\ aa.force
    /\ AaExists /\ AaGraded
    /\ aa.out = "failed" /\ aa.db.asgn[aa.code] = "old" /\ aa.stored = aa.db0

C28_EveryHandinHasDue ==
    vh.pc = "done" /\ vh.err = "nil"
        => \A i \in 1..Len(vh.handins) : vh.handins[i].hasDue

\* the places where a handin lists a problem: handin i, position j
Listings == {<<i, j>> : i \in 1..MaxHandins, j \in 1..MaxListed}

VhListed == {x \in Listings : x[1] <= Len(vh.handins)
                              /\ x[2] <= Len(vh.handins[x[1]].problems)}

VhCode(x) == vh.handins[x[1]].problems[x[2]]

\* C29: in an assignment that validateHandins accepts every problem code a
\* handin lists is the code of a top-level problem, no code is listed at two
\* places, and every top-level problem is listed: each top-level problem is
\* listed at exactly one place, so belongs to exactly one handin.
C29_HandinsPartitionProblems ==
    vh.pc = "done" /\ vh.err = "nil"
        => /\ \A x \in VhListed : VhCode(x) \in TopLevelCodes(vh.problems)
           /\ \A x \in VhListed, y \in VhListed : VhCode(x) = VhCode(y) => x = y
           /\ \A t \in TopLevelCodes(vh.problems) :
                Cardinality({x \in VhListed : VhCode(x) = t}) = 1

\* C29 witness: an assignment with two top-level problems, one of them with
\* a subproblem, and two handins is accepted
C29_Witness ==
    /\ vh.pc = "done" /\ vh.err = "nil"
    /\ Len(vh.handins) = 2
    /\ Len(vh.problems) = 2 /\ AllCodes(vh.problems) # TopLevelCodes(vh.problems)

=============================================================================
